---------------------------- MODULE Spec2Model ----------------------------
(***************************************************************************)
(* Model of convert_proxy.py: the proxy list converter.                    *)
(*                                                                         *)
(* Text is modelled as a sequence of one-character strings, so that        *)
(* stripping, splitting and parsing are computed character by character.   *)
(* The alphabet is ASCII: digits, letters, '.', ':', '#', '+', '-', '_',   *)
(* blank, tab, "\n" and "\r".  Non-ASCII digits and white space, the '%'   *)
(* scope id and the '/' of ipaddress are outside the alphabet.             *)
(***************************************************************************)
EXTENDS Integers, Sequences, FiniteSets, TLC

VARIABLES
    pc,           \* position of main(): start, loaded, generated, writing, replace, done, killed
    input,        \* the input path: [kind, data]
    lines,        \* main's `lines`: what load_proxy_list returned
    config,       \* main's `config`: an insertion-ordered dict
    dest,         \* content of the output path (Absent when there is no file)
    tmp,          \* content of the output path + ".tmp"
    log,          \* the events logged by the current run, as <<level, message>>
    exitStatus,   \* the process's exit status, Running while it runs
    raised,       \* the exception that escaped main(), "" when none
    run,          \* number of the current invocation
    destAtStart,  \* history: content of the output path when the current run started
    outputs,      \* history: the documents that runs have installed at the output path
    pos,          \* write_text: how much of the document this run has written
    caught,       \* the exceptions the current run raised and handled
    candidate,    \* the line handed to parse_proxy (SpecParse)
    parsed        \* what parse_proxy returned for it, Pending before the call (SpecParse)

vars == <<pc, input, lines, config, dest, tmp, log, exitStatus, raised, run,
          destAtStart, outputs, pos, caught, candidate, parsed>>

----------------------------------------------------------------------------
(* str primitives                                                          *)

\* A string literal as a sequence of characters.
Chars(s) == [i \in 1..Len(s) |-> SubSeq(s, i, i)]

Min(S) == CHOOSE m \in S : \A n \in S : m <= n

WHITESPACE == {" ", "\t"}

LINE_BREAKS == {"\n", "\r"}

DIGITS == {"0", "1", "2", "3", "4", "5", "6", "7", "8", "9"}

HEX_DIGITS == DIGITS \cup {"a", "b", "c", "d", "e", "f", "A", "B", "C", "D", "E", "F"}

RECURSIVE lstrip(_)
lstrip(s) ==
    IF s # <<>> /\ Head(s) \in WHITESPACE THEN lstrip(Tail(s)) ELSE s

RECURSIVE rstrip(_)
rstrip(s) ==
    IF s # <<>> /\ s[Len(s)] \in WHITESPACE THEN rstrip(SubSeq(s, 1, Len(s) - 1)) ELSE s

strip(s) == rstrip(lstrip(s))

startswith(s, c) == s # <<>> /\ Head(s) = c

\* str.split(sep) for a one-character separator: never empty, "" gives [""].
RECURSIVE split(_, _)
split(s, sep) ==
    LET at == {i \in 1..Len(s) : s[i] = sep} IN
    IF at = {} THEN <<s>>
    ELSE <<SubSeq(s, 1, Min(at) - 1)>> \o split(SubSeq(s, Min(at) + 1, Len(s)), sep)

\* str.splitlines(): "\n", "\r" and "\r\n" end a line; no empty last line.
RECURSIVE splitlines(_)
splitlines(s) ==
    LET at == {i \in 1..Len(s) : s[i] \in LINE_BREAKS} IN
    IF s = <<>> THEN <<>>
    ELSE IF at = {} THEN <<s>>
    ELSE LET i == Min(at)
             j == IF s[i] = "\r" /\ i < Len(s) /\ s[i + 1] = "\n" THEN i + 1 ELSE i
         IN  <<SubSeq(s, 1, i - 1)>> \o splitlines(SubSeq(s, j + 1, Len(s)))

\* Text-mode reading with universal newlines: "\r\n" and "\r" become "\n".
read_text(s) ==
    LET at == SelectSeq([i \in 1..Len(s) |-> i],
                        LAMBDA i : ~(s[i] = "\n" /\ i > 1 /\ s[i - 1] = "\r"))
    IN  [k \in 1..Len(at) |-> IF s[at[k]] = "\r" THEN "\n" ELSE s[at[k]]]

DigitValue(c) == CHOOSE d \in 0..9 : ToString(d) = c

RECURSIVE DecimalValue(_)
DecimalValue(ds) ==
    IF ds = <<>> THEN 0
    ELSE 10 * DecimalValue(SubSeq(ds, 1, Len(ds) - 1)) + DigitValue(ds[Len(ds)])

\* int(s): white space around, an optional sign, decimal digits, single
\* underscores between digits.  IntOk is "no ValueError".
IntBody(s) ==
    LET t == strip(s) IN IF t # <<>> /\ Head(t) \in {"+", "-"} THEN Tail(t) ELSE t

IntOk(s) ==
    LET b == IntBody(s) IN
    /\ b # <<>>
    /\ \A i \in 1..Len(b) : b[i] \in DIGITS \cup {"_"}
    /\ b[1] # "_" /\ b[Len(b)] # "_"
    /\ \A i \in 1..(Len(b) - 1) : ~(b[i] = "_" /\ b[i + 1] = "_")

IntValue(s) ==
    LET t == strip(s)
        v == DecimalValue(SelectSeq(IntBody(s), LAMBDA c : c # "_"))
    IN  IF t # <<>> /\ Head(t) = "-" THEN 0 - v ELSE v

----------------------------------------------------------------------------
(* ipaddress.ip_address                                                    *)

\* IPv4Address._parse_octet: 1 to 3 decimal digits, no leading zero, <= 255.
ParseOctetOk(o) ==
    /\ o # <<>>
    /\ \A i \in 1..Len(o) : o[i] \in DIGITS
    /\ Len(o) <= 3
    /\ ~(o # <<"0">> /\ o[1] = "0")
    /\ DecimalValue(o) <= 255

IsIPv4(s) ==
    LET octets == split(s, ".") IN
    /\ Len(octets) = 4
    /\ \A i \in 1..4 : ParseOctetOk(octets[i])

\* IPv6Address._parse_hextet: 1 to 4 hexadecimal digits.
ParseHextetOk(h) ==
    /\ h # <<>>
    /\ \A i \in 1..Len(h) : h[i] \in HEX_DIGITS
    /\ Len(h) <= 4

\* IPv6Address._ip_int_from_string.
IsIPv6(s) ==
    LET raw == split(s, ":")
        v4tail == Len(raw) >= 3 /\ "." \in {raw[Len(raw)][i] : i \in 1..Len(raw[Len(raw)])}
        \* an IPv4 suffix is replaced by its two hextets
        parts == IF v4tail THEN SubSeq(raw, 1, Len(raw) - 1) \o <<<<"0">>, <<"0">>>> ELSE raw
        n == Len(parts)
        skips == {i \in 2..(n - 1) : parts[i] = <<>>}
        skip == Min(skips)
        hi == IF parts[1] = <<>> THEN skip - 2 ELSE skip - 1
        lo == IF parts[n] = <<>> THEN n - skip - 1 ELSE n - skip
    IN  /\ s # <<>>
        /\ Len(raw) >= 3
        /\ v4tail => IsIPv4(raw[Len(raw)])
        /\ n <= 9
        /\ Cardinality(skips) <= 1
        /\ IF skips # {}
           THEN /\ parts[1] = <<>> => skip - 2 = 0
                /\ parts[n] = <<>> => n - skip - 1 = 0
                /\ 8 - (hi + lo) >= 1
                /\ \A i \in 1..hi : ParseHextetOk(parts[i])
                /\ \A i \in (n - lo + 1)..n : ParseHextetOk(parts[i])
           ELSE /\ n = 8
                /\ \A i \in 1..n : ParseHextetOk(parts[i])

\* ipaddress.ip_address(s) returns (does not raise ValueError).
IpAddressOk(s) == IsIPv4(s) \/ IsIPv6(s)

----------------------------------------------------------------------------
(* Constants                                                               *)

EXIT_FAILURE == 1

SCHEMA_VERSION == 2

REVISION_ID == "190a4bca575"

DEFAULT_REVISION_ID == "1908e30c31b"

DEFAULT_PROXY_COLOR == "#ca0"

AUTO_SWITCH_NAME == "+auto switch"

PROXY_GROUP_NAME == "+proxy"

PROXY_PREFIX == "+m"

BYPASS_PATTERNS == <<"127.0.0.1", "::1", "localhost">>

\* Python's None.
None == [none |-> TRUE]

----------------------------------------------------------------------------
(* Parsing & validation                                                    *)

\* A faulty variant of Parts: the fields are not stripped.
PartsUnstripped(line) == split(line, ":")

\* A faulty variant of Parts: line.rsplit(":", 3), which leaves the ':' of an IPv6
\* address in the first field.
PartsRsplit(line) ==
    LET at == {i \in 1..Len(line) : line[i] = ":"}
        cut == IF Cardinality(at) <= 3 THEN 0
               ELSE CHOOSE i \in at : Cardinality({j \in at : j >= i}) = 4
        tail == split(SubSeq(line, cut + 1, Len(line)), ":")
        raw == IF cut = 0 THEN tail
               ELSE <<SubSeq(line, 1, cut - 1) \o <<":">> \o tail[1]>> \o Tail(tail)
    IN  [i \in 1..Len(raw) |-> strip(raw[i])]

\* parts = [p.strip() for p in line.split(":")]
Parts(line) == LET raw == split(line, ":") IN [i \in 1..Len(raw) |-> strip(raw[i])]

\* parse_proxy: [proxy |-> the ProxyEntry or None, warning |-> what was logged].
parse_proxy(line) ==
    LET parts == Parts(line)
        ip_raw == parts[1]
        port_raw == parts[2]
        username == parts[3]
        password == parts[4]
    IN  IF Len(parts) # 4
        THEN [proxy |-> None, warning |-> "Invalid format (expected IP:PORT:USER:PASS)"]
        ELSE IF ~IpAddressOk(ip_raw)
        THEN [proxy |-> None, warning |-> "Invalid IP address"]
        ELSE IF ~IntOk(port_raw) \/ ~(1 <= IntValue(port_raw) /\ IntValue(port_raw) <= 65535)
        THEN [proxy |-> None, warning |-> "Invalid port number"]
        ELSE IF username = <<>> \/ password = <<>>
        THEN [proxy |-> None, warning |-> "Empty username or password"]
        ELSE [proxy |-> [ip |-> ip_raw, port |-> IntValue(port_raw),
                         username |-> username, password |-> password],
              warning |-> ""]

build_bypass_list ==
    [i \in 1..Len(BYPASS_PATTERNS) |->
        [conditionType |-> "BypassCondition", pattern |-> BYPASS_PATTERNS[i]]]

----------------------------------------------------------------------------
(* Profile builders                                                        *)

\* f"{PROXY_PREFIX}{index}"
ProxyKey(index) == PROXY_PREFIX \o ToString(index)

build_proxy_profile(entry, index) ==
    [profileType |-> "FixedProfile",
     name |-> ProxyKey(index),
     color |-> DEFAULT_PROXY_COLOR,
     revision |-> REVISION_ID,
     bypassList |-> build_bypass_list,
     fallbackProxy |-> [scheme |-> "http", host |-> entry.ip, port |-> entry.port],
     auth |-> [fallbackProxy |-> [username |-> entry.username,
                                  password |-> entry.password]]]

\* A dict is the sequence of its items in insertion order.
Item(k, v) == [key |-> k, value |-> v]

build_static_profiles ==
    << Item(AUTO_SWITCH_NAME,
            [profileType |-> "SwitchProfile",
             name |-> "auto switch",
             color |-> "#99dd99",
             defaultProfileName |-> "direct",
             rules |-> << [condition |-> [conditionType |-> "HostWildcardCondition",
                                          pattern |-> "internal.example.com"],
                           profileName |-> "direct"],
                          [condition |-> [conditionType |-> "HostWildcardCondition",
                                          pattern |-> "*.example.com"],
                           profileName |-> "proxy"] >>]),
       Item(PROXY_GROUP_NAME,
            [profileType |-> "FixedProfile",
             name |-> "proxy",
             color |-> "#99ccee",
             revision |-> DEFAULT_REVISION_ID,
             bypassList |-> build_bypass_list,
             fallbackProxy |-> [scheme |-> "http", host |-> Chars("127.0.0.1"), port |-> 80]]),
       Item("schemaVersion", [number |-> SCHEMA_VERSION]) >>

----------------------------------------------------------------------------
(* JSON generation                                                         *)

\* d[k] = v: an existing key keeps its place, a new key goes last.
DictSet(d, k, v) ==
    IF \E i \in 1..Len(d) : d[i].key = k
    THEN [i \in 1..Len(d) |-> IF d[i].key = k THEN Item(k, v) ELSE d[i]]
    ELSE Append(d, Item(k, v))

\* A faulty variant of NextIndex: the index counts the input lines, rejected ones too.
NextIndexPerLine(proxy, index) == index + 1

\* The index after a line of generate_config's loop that produced `proxy`.
NextIndex(proxy, index) == IF proxy = None THEN index ELSE index + 1

\* The for loop of generate_config, from its state (config, index) on.
RECURSIVE GenerateLoop(_, _, _)
GenerateLoop(ls, cfg, index) ==
    IF ls = <<>> THEN [config |-> cfg, index |-> index]
    ELSE LET proxy == parse_proxy(Head(ls)).proxy IN
         GenerateLoop(Tail(ls),
                      IF proxy = None THEN cfg
                      ELSE DictSet(cfg, ProxyKey(index), build_proxy_profile(proxy, index)),
                      NextIndex(proxy, index))

generate_config(ls) == GenerateLoop(ls, build_static_profiles, 1).config

\* The warnings generate_config's calls of parse_proxy logged.
GenerateWarnings(ls) ==
    {<<"WARNING", parse_proxy(ls[i]).warning>> : i \in {j \in 1..Len(ls) : parse_proxy(ls[j]).proxy = None}}

\* A faulty variant of dumps: sort_keys=True ("+auto switch" < "+m..." < "+proxy" <
\* "schemaVersion").
dumps_sort_keys(data) ==
    LET rank(k) == CASE k = AUTO_SWITCH_NAME -> 1
                     [] k = PROXY_GROUP_NAME -> 3
                     [] k = "schemaVersion" -> 4
                     [] OTHER -> 2
        ranked(r) == SelectSeq(data, LAMBDA it : rank(it.key) = r)
        sorted == ranked(1) \o ranked(2) \o ranked(3) \o ranked(4)
    IN  <<[punct |-> "{"]>> \o [i \in 1..Len(sorted) |-> [member |-> sorted[i]]]
        \o <<[punct |-> "}"]>>

\* json.dumps(data, indent=4, ensure_ascii=False): the members in the dict's
\* iteration order (no sort_keys) between the braces; one token per member.
dumps(data) ==
    <<[punct |-> "{"]>> \o [i \in 1..Len(data) |-> [member |-> data[i]]] \o <<[punct |-> "}"]>>

----------------------------------------------------------------------------
(* File handling                                                           *)

\* A faulty variant of KeepLine: the comment test looks at the unstripped line.
KeepLineNoLstrip(line) == strip(line) # <<>> /\ ~startswith(line, "#")

\* line.strip() and not line.lstrip().startswith("#")
KeepLine(line) == strip(line) # <<>> /\ ~startswith(lstrip(line), "#")

\* entries = [line.strip() for line in raw_lines if ...]
RECURSIVE Entries(_)
Entries(raw_lines) ==
    IF raw_lines = <<>> THEN <<>>
    ELSE (IF KeepLine(Head(raw_lines)) THEN <<strip(Head(raw_lines))>> ELSE <<>>)
         \o Entries(Tail(raw_lines))

\* The exceptions load_proxy_list's except clause handles: OSError and its
\* subclasses.  UnicodeDecodeError is a ValueError.
LoadHandles(exc) == exc \in {"OSError", "PermissionError"}

\* What Path.read_text raises on a file of this kind, "" when it returns.
ReadTextRaises(file) ==
    CASE file.kind = "unreadable" -> "PermissionError"
      [] file.kind = "undecodable" -> "UnicodeDecodeError"
      [] OTHER -> ""

\* load_proxy_list: what it returns, logs, handles and lets escape.
load_proxy_list(file) ==
    IF file.kind = "missing"
    THEN [entries |-> <<>>, log |-> {<<"ERROR", "Proxy list file not found">>},
          caught |-> {}, raised |-> ""]
    ELSE IF ReadTextRaises(file) # ""
    THEN IF LoadHandles(ReadTextRaises(file))
         THEN [entries |-> <<>>, log |-> {<<"ERROR", "Failed to read proxy list">>},
               caught |-> {<<"read_text", ReadTextRaises(file)>>}, raised |-> ""]
         ELSE [entries |-> <<>>, log |-> {}, caught |-> {}, raised |-> ReadTextRaises(file)]
    ELSE [entries |-> Entries(splitlines(read_text(file.data))),
          log |-> {<<"INFO", "Loaded candidate proxy entries">>},
          caught |-> {}, raised |-> ""]

----------------------------------------------------------------------------
(* Files and processes                                                     *)

Absent == [exists |-> FALSE, data |-> <<>>]

File(data) == [exists |-> TRUE, data |-> data]

\* What the output path may hold before the first run: some other content.
OldFile == File(<<[old |-> "previous content"]>>)

\* A temporary file an earlier, interrupted run left behind.
StaleTmp == File(<<[punct |-> "{"], [old |-> "interrupted"]>>)

Exited(status) == <<status>>

Running == <<>>

Pending == [pending |-> TRUE]

TextFile(data) == [kind |-> "text", data |-> data]

RECURSIVE Join(_, _)
Join(fs, sep) ==
    IF fs = <<>> THEN <<>>
    ELSE IF Len(fs) = 1 THEN fs[1]
    ELSE fs[1] \o <<sep>> \o Join(Tail(fs), sep)

SeqsUpTo(S, n) == UNION {[1..m -> S] : m \in 0..n}

----------------------------------------------------------------------------
(* Bounds and inputs                                                       *)

MaxLines == 3

MaxRuns == 2

MaxFields == 6

MaxContentLen == 5

\* The raw lines the input files of Spec are made of.
FileLines ==
    { Chars("1.2.3.4:80:u:p"),
      Chars(" 10.0.0.1 : 8080 : al : pw\t"),
      Chars("999.9.9.9:80:u:p"),
      Chars("  # 9.9.9.9:9:a:b") }

InputFiles ==
    { TextFile(Join(ls, "\n")) : ls \in SeqsUpTo(FileLines, MaxLines) }
    \cup { [kind |-> k, data |-> <<>>] : k \in {"missing", "unreadable", "undecodable"} }

\* The fields the candidate lines of SpecParse are made of.
FieldPool == { Chars("1.2.3.4"), Chars("80"), Chars("u"), <<>>, Chars(" p ") }

CuratedLines ==
    { Chars("10.0.0.1:8080:alice:secret"),
      Chars("999.999.999.999:8080:alice:secret"),
      Chars("10.0.0.1:70000:alice:secret"),
      Chars("10.0.0.1:0:alice:secret"),
      Chars("10.0.0.1:65535:alice:secret"),
      Chars("10.0.0.1:65536:alice:secret"),
      Chars("10.0.0.1:-1:alice:secret"),
      Chars("10.0.0.1:+80:alice:secret"),
      Chars("10.0.0.1:8_0:alice:secret"),
      Chars("10.0.0.1:0080:alice:secret"),
      Chars("10.0.0.1:80a:alice:secret"),
      Chars("010.0.0.1:80:alice:secret"),
      Chars("1.2.3:80:alice:secret"),
      Chars("::1:80:u:p"),
      Chars("2001:db8::1:8080:u:p"),
      Chars("1:2:3:4:5:6:7:8:80:u:p"),
      Chars("1.2.3.4:80:u:pa:ss"),
      Chars("\t1.2.3.4 :80 : u:p ") }

CandidateLines == { Join(fs, ":") : fs \in SeqsUpTo(FieldPool, MaxFields) } \cup CuratedLines

\* The file contents of SpecLoad: every text over this alphabet.
ContentAlphabet == {" ", "#", "a", "\n", "\r"}

LoadInputs ==
    { TextFile(data) : data \in SeqsUpTo(ContentAlphabet, MaxContentLen) }
    \cup { [kind |-> k, data |-> <<>>] : k \in {"missing", "unreadable", "undecodable"} }

----------------------------------------------------------------------------
(* main                                                                    *)

TypeOK ==
    /\ pc \in {"start", "loaded", "generated", "writing", "replace", "done", "killed"}
    /\ run \in 1..MaxRuns
    /\ pos \in 0..(MaxLines + 5)
    /\ dest.exists \in BOOLEAN /\ tmp.exists \in BOOLEAN
    /\ Len(exitStatus) <= 1

\* The state of a process that has just been started.
FreshProcess ==
    /\ pc = "start"
    /\ lines = <<>>
    /\ config = <<>>
    /\ log = {}
    /\ exitStatus = Running
    /\ raised = ""
    /\ pos = 0
    /\ caught = {}

NoParse == candidate = <<>> /\ parsed = Pending

Init ==
    /\ FreshProcess
    /\ NoParse
    /\ input \in InputFiles
    /\ dest \in {Absent, OldFile}
    /\ tmp \in {Absent, StaleTmp}
    /\ run = 1
    /\ destAtStart = dest
    /\ outputs = {}

\* An exception that nothing handles ends the process with status 1.
UncaughtExitStatus == Exited(1)

\* lines = load_proxy_list(args.input, logger)
LoadProxyList ==
    /\ pc = "start"
    /\ LET r == load_proxy_list(input) IN
       /\ lines' = r.entries
       /\ log' = log \cup r.log
       /\ caught' = caught \cup r.caught
       /\ raised' = r.raised
       /\ pc' = IF r.raised = "" THEN "loaded" ELSE "done"
       /\ exitStatus' = IF r.raised = "" THEN exitStatus ELSE UncaughtExitStatus
    /\ UNCHANGED <<input, config, dest, tmp, run, destAtStart, outputs, pos, candidate, parsed>>

\* main's guard before generating: `if not lines`.
MainAborts(ls) == ls = <<>>

\* if not lines: logger.error(...); sys.exit(EXIT_FAILURE)
Abort ==
    /\ pc = "loaded"
    /\ MainAborts(lines)
    /\ log' = log \cup {<<"ERROR", "No valid proxy entries found. Aborting.">>}
    /\ exitStatus' = Exited(EXIT_FAILURE)
    /\ pc' = "done"
    /\ UNCHANGED <<input, lines, config, dest, tmp, raised, run, destAtStart, outputs, pos,
                   caught, candidate, parsed>>

\* config = generate_config(lines, logger)
GenerateConfig ==
    /\ pc = "loaded"
    /\ ~MainAborts(lines)
    /\ config' = generate_config(lines)
    /\ log' = log \cup GenerateWarnings(lines) \cup {<<"INFO", "Generated valid proxy profiles">>}
    /\ pc' = "generated"
    /\ UNCHANGED <<input, lines, dest, tmp, exitStatus, raised, run, destAtStart, outputs, pos,
                   caught, candidate, parsed>>

\* A faulty variant of HandleWriteError: the handler ends the run with EXIT_FAILURE.
HandleWriteErrorAndExit(step) ==
    /\ log' = log \cup {<<"ERROR", "Failed to write output file">>}
    /\ caught' = caught \cup {<<step, "OSError">>}
    /\ exitStatus' = Exited(EXIT_FAILURE)
    /\ pc' = "done"

\* except OSError as exc: logger.exception(...); then main returns.
HandleWriteError(step) ==
    /\ log' = log \cup {<<"ERROR", "Failed to write output file">>}
    /\ caught' = caught \cup {<<step, "OSError">>}
    /\ exitStatus' = Exited(0)
    /\ pc' = "done"

\* A faulty variant of OpenForWriting: the file is opened for appending.
OpenForAppending(old) == IF old.exists THEN old ELSE File(<<>>)

\* What opening the temporary file for writing leaves in it: nothing.
OpenForWriting(old) == File(<<>>)

\* tmp_path.write_text(...): the file is created or truncated.
OpenTmp ==
    /\ pc = "generated"
    /\ tmp' = OpenForWriting(tmp)
    /\ pos' = 0
    /\ pc' = "writing"
    /\ UNCHANGED <<input, lines, config, dest, log, exitStatus, raised, run, destAtStart,
                   outputs, caught, candidate, parsed>>

\* tmp_path.write_text(...): the file cannot be opened.
OpenTmpFails ==
    /\ pc = "generated"
    /\ HandleWriteError("write_text")
    /\ UNCHANGED <<input, lines, config, dest, tmp, raised, run, destAtStart, outputs, pos,
                   candidate, parsed>>

\* tmp_path.write_text(...): the next part of the document reaches the file.
WriteChunk ==
    /\ pc = "writing"
    /\ pos < Len(dumps(config))
    /\ tmp' = File(Append(tmp.data, dumps(config)[pos + 1]))
    /\ pos' = pos + 1
    /\ UNCHANGED <<pc, input, lines, config, dest, log, exitStatus, raised, run, destAtStart,
                   outputs, caught, candidate, parsed>>

\* A faulty variant of WriteFails: the failure is logged and the replace still runs.
WriteFailsThenReplaces ==
    /\ pc = "writing"
    /\ log' = log \cup {<<"ERROR", "Failed to write output file">>}
    /\ caught' = caught \cup {<<"write_text", "OSError">>}
    /\ pc' = "replace"
    /\ UNCHANGED <<input, lines, config, dest, tmp, exitStatus, raised, run, destAtStart,
                   outputs, pos, candidate, parsed>>

\* tmp_path.write_text(...) raises OSError while writing or closing the file.
WriteFails ==
    /\ pc = "writing"
    /\ HandleWriteError("write_text")
    /\ UNCHANGED <<input, lines, config, dest, tmp, raised, run, destAtStart, outputs, pos,
                   candidate, parsed>>

\* tmp_path.write_text(...) returns: everything is written and the file closed.
WriteReturns ==
    /\ pc = "writing"
    /\ pos = Len(dumps(config))
    /\ pc' = "replace"
    /\ UNCHANGED <<input, lines, config, dest, tmp, log, exitStatus, raised, run, destAtStart,
                   outputs, pos, caught, candidate, parsed>>

\* tmp_path.replace(path); logger.info(...); then main returns.
Replace ==
    /\ pc = "replace"
    /\ dest' = tmp
    /\ tmp' = Absent
    /\ outputs' = outputs \cup {tmp.data}
    /\ log' = log \cup {<<"INFO", "Configuration written">>}
    /\ exitStatus' = Exited(0)
    /\ pc' = "done"
    /\ UNCHANGED <<input, lines, config, raised, run, destAtStart, pos, caught, candidate, parsed>>

\* tmp_path.replace(path) raises OSError.
ReplaceFails ==
    /\ pc = "replace"
    /\ HandleWriteError("replace")
    /\ UNCHANGED <<input, lines, config, dest, tmp, raised, run, destAtStart, outputs, pos,
                   candidate, parsed>>

\* The process is killed (or the machine stops) between two steps.
Crash ==
    /\ pc \notin {"done", "killed"}
    /\ pc' = "killed"
    /\ UNCHANGED <<input, lines, config, dest, tmp, log, exitStatus, raised, run, destAtStart,
                   outputs, pos, caught, candidate, parsed>>

\* The converter is started again on the same, unmodified input.
NextRun ==
    /\ pc \in {"done", "killed"}
    /\ run < MaxRuns
    /\ run' = run + 1
    /\ pc' = "start"
    /\ lines' = <<>>
    /\ config' = <<>>
    /\ log' = {}
    /\ exitStatus' = Running
    /\ raised' = ""
    /\ pos' = 0
    /\ caught' = {}
    /\ destAtStart' = dest
    /\ UNCHANGED <<input, dest, tmp, outputs, candidate, parsed>>

Next ==
    \/ LoadProxyList
    \/ Abort
    \/ GenerateConfig
    \/ OpenTmp
    \/ OpenTmpFails
    \/ WriteChunk
    \/ WriteFails
    \/ WriteReturns
    \/ Replace
    \/ ReplaceFails
    \/ Crash
    \/ NextRun

Spec == Init /\ [][Next]_vars

----------------------------------------------------------------------------
(* parse_proxy on one candidate line                                       *)

NoRun ==
    /\ FreshProcess
    /\ input = TextFile(<<>>)
    /\ dest = Absent /\ tmp = Absent
    /\ run = 1
    /\ destAtStart = Absent
    /\ outputs = {}

InitParse ==
    /\ NoRun
    /\ candidate \in CandidateLines
    /\ parsed = Pending

ParseProxy ==
    /\ parsed = Pending
    /\ parsed' = parse_proxy(candidate)
    /\ UNCHANGED <<pc, input, lines, config, dest, tmp, log, exitStatus, raised, run,
                   destAtStart, outputs, pos, caught, candidate>>

NextParse == ParseProxy

SpecParse == InitParse /\ [][NextParse]_vars

----------------------------------------------------------------------------
(* load_proxy_list on one input file                                       *)

InitLoad ==
    /\ FreshProcess
    /\ NoParse
    /\ input \in LoadInputs
    /\ dest = Absent /\ tmp = Absent
    /\ run = 1
    /\ destAtStart = Absent
    /\ outputs = {}

NextLoad == LoadProxyList

SpecLoad == InitLoad /\ [][NextLoad]_vars

----------------------------------------------------------------------------
(* Vocabulary of the properties                                            *)

\* The lines parse_proxy accepts, in order.
AcceptedLines(ls) == SelectSeq(ls, LAMBDA l : parse_proxy(l).proxy # None)

Lookup(d, k) == d[CHOOSE i \in 1..Len(d) : d[i].key = k].value

GeneratedKeys(k) == [i \in 1..k |-> "+m" \o ToString(i)]

\* s without its leading and trailing white space, by position.
Trimmed(s) ==
    LET ink == {i \in 1..Len(s) : s[i] \notin WHITESPACE} IN
    IF ink = {} THEN <<>>
    ELSE SubSeq(s, Min(ink), CHOOSE m \in ink : \A n \in ink : n <= m)

ColonCount(line) == Cardinality({i \in 1..Len(line) : line[i] = ":"})

\* The keys of the members of a rendered document, in the order rendered.
DocKeys(data) ==
    LET members == SelectSeq(data, LAMBDA t : "member" \in DOMAIN t)
    IN  [i \in 1..Len(members) |-> members[i].member.key]

\* data is the whole rendering of cfg: both braces and every member.
IsCompleteDocOf(data, cfg) ==
    /\ Len(data) = Len(cfg) + 2
    /\ data[1] = [punct |-> "{"]
    /\ data[Len(data)] = [punct |-> "}"]
    /\ \A i \in 1..Len(cfg) : data[i + 1] = [member |-> cfg[i]]

WriteFailed == \E step \in {"write_text", "replace"} : <<step, "OSError">> \in caught

WriteReported == <<"ERROR", "Failed to write output file">> \in log

Installed == <<"INFO", "Configuration written">> \in log

----------------------------------------------------------------------------
(* Properties                                                              *)

\* C1: when generate_config returns, whatever lines it was given, with k of
\* them accepted by parse_proxy, the configuration's keys are exactly
\* "+auto switch", "+proxy", "schemaVersion" and "+m1".."+mk", and "+m<i>"
\* holds the FixedProfile built from the i-th accepted record in input order
\* (rejected lines leave no gap and stop nothing).
C1_DenseKeys ==
    pc = "generated" =>
        LET accepted == AcceptedLines(lines)
            k == Len(accepted)
        IN  /\ Len(config) = k + 3
            /\ {config[i].key : i \in 1..Len(config)}
                 = {"+auto switch", "+proxy", "schemaVersion"}
                   \cup {GeneratedKeys(k)[i] : i \in 1..k}
            /\ \A i \in 1..k :
                 LET profile == Lookup(config, GeneratedKeys(k)[i])
                     record == parse_proxy(accepted[i]).proxy
                 IN  /\ profile.profileType = "FixedProfile"
                     /\ profile.name = GeneratedKeys(k)[i]
                     /\ profile.fallbackProxy
                          = [scheme |-> "http", host |-> record.ip, port |-> record.port]
                     /\ profile.auth
                          = [fallbackProxy |-> [username |-> record.username,
                                                password |-> record.password]]

\* C1 witness: lines 1 and 3 accepted, line 2 rejected, and "+m2" holds the
\* third line's data.
C1_Witness ==
    /\ pc = "generated"
    /\ lines = << Chars("1.2.3.4:80:u:p"),
                  Chars("999.9.9.9:80:u:p"),
                  Chars("10.0.0.1 : 8080 : al : pw") >>
    /\ Lookup(config, "+m2").fallbackProxy.host = Chars("10.0.0.1")
    /\ Lookup(config, "+m2").fallbackProxy.port = 8080

\* C2: a run in which no line yields an accepted record never reaches the
\* write step, leaves the output path as it was and exits with a non-zero
\* status.
C2_ZeroAcceptedAborts ==
    (pc # "start" /\ AcceptedLines(lines) = <<>>) =>
        /\ pc \notin {"generated", "writing", "replace"}
        /\ dest = destAtStart
        /\ pc = "done" => exitStatus # Exited(0)

\* C3 as claimed: the rendered document's keys are "+auto switch", "+proxy",
\* then "+m1".."+mk", then "schemaVersion" last.
C3_SchemaVersionLast ==
    pc = "replace" =>
        DocKeys(tmp.data) = <<"+auto switch", "+proxy">>
                              \o GeneratedKeys(Len(AcceptedLines(lines)))
                              \o <<"schemaVersion">>

\* C3 amended: the rendered document's keys are "+auto switch", "+proxy",
\* "schemaVersion", then "+m1".."+mk" in ascending numeric order.
C3_StaticThenGenerated ==
    /\ pc = "replace" =>
        DocKeys(tmp.data) = <<"+auto switch", "+proxy", "schemaVersion">>
                              \o GeneratedKeys(Len(AcceptedLines(lines)))
    /\ (pc = "done" /\ Installed) =>
        DocKeys(dest.data) = <<"+auto switch", "+proxy", "schemaVersion">>
                               \o GeneratedKeys(Len(AcceptedLines(lines)))

\* C3 witness: a document with two generated profiles has been rendered.
C3_Witness ==
    /\ pc = "replace"
    /\ Len(AcceptedLines(lines)) = 2
    /\ Len(DocKeys(tmp.data)) = 5

\* C4: at every point of a run, failures and crashes included, the output
\* path holds what it held when the run started or the complete new document;
\* the replace step is reached only with the temporary file completely
\* written, and no run that failed to write has changed the output path.
C4_AtomicWrite ==
    /\ dest = destAtStart \/ (dest.exists /\ IsCompleteDocOf(dest.data, config))
    /\ pc = "replace" => (tmp.exists /\ IsCompleteDocOf(tmp.data, config))
    /\ WriteFailed => dest = destAtStart

\* C4 witness: the process was killed in the middle of the temporary write and
\* the output path still holds a file.
C4_Witness ==
    /\ pc = "killed"
    /\ 0 < pos /\ pos < Len(dumps(config))
    /\ tmp.exists /\ ~IsCompleteDocOf(tmp.data, config)
    /\ dest.exists /\ dest = destAtStart

\* C5 as claimed: when the temporary write or the replace step fails, the
\* failure is reported and the run ends with a non-zero exit status.
C5_WriteErrorExitsNonZero ==
    (pc = "done" /\ WriteFailed) => (WriteReported /\ exitStatus # Exited(0))

\* C5 amended: when the temporary write or the replace step fails with an
\* OSError, the failure is reported, the output path is left as it was, and
\* the run ends normally, with exit status 0.
C5_WriteErrorReportedExitsZero ==
    WriteFailed =>
        /\ pc = "done"
        /\ WriteReported
        /\ exitStatus = Exited(0)
        /\ dest = destAtStart

\* C5 witness: the replace step failed.
C5_Witness == pc = "done" /\ <<"replace", "OSError">> \in caught

\* C6: parse_proxy returns a record exactly when the line has 4 ':'-separated
\* fields, the trimmed first is an IP literal, the trimmed second a base-10
\* integer in 1..65535 and the trimmed third and fourth are not empty; the
\* record holds those four trimmed values, the port as an integer; every other
\* line is rejected with a warning.
C6_ParseIff ==
    parsed # Pending =>
        LET f == split(candidate, ":")
            valid == /\ Len(f) = 4
                     /\ IpAddressOk(Trimmed(f[1]))
                     /\ IntOk(Trimmed(f[2]))
                     /\ IntValue(Trimmed(f[2])) \in 1..65535
                     /\ Trimmed(f[3]) # <<>>
                     /\ Trimmed(f[4]) # <<>>
        IN  IF valid
            THEN /\ parsed.proxy = [ip |-> Trimmed(f[1]), port |-> IntValue(Trimmed(f[2])),
                                    username |-> Trimmed(f[3]), password |-> Trimmed(f[4])]
                 /\ parsed.warning = ""
            ELSE /\ parsed.proxy = None
                 /\ parsed.warning # ""

\* C6 witness: a line with white space around its fields was accepted, with
\* the fields trimmed.
C6_Witness ==
    /\ candidate = Chars("\t1.2.3.4 :80 : u:p ")
    /\ parsed # Pending
    /\ parsed.proxy = [ip |-> Chars("1.2.3.4"), port |-> 80,
                       username |-> Chars("u"), password |-> Chars("p")]

\* C7: when the path is no readable file, or reading it fails (permissions,
\* encoding), load_proxy_list lets nothing escape: it logs an error and
\* returns an empty sequence.
C7_LoadNeverEscapes ==
    (pc # "start" /\ input.kind # "text") =>
        /\ raised = ""
        /\ lines = <<>>
        /\ \E e \in log : e[1] = "ERROR"

\* C8: all the documents that runs over the same input have installed at the
\* output path are identical, whatever earlier runs left behind, and the key
\* of a generated profile is its position among the generated profiles.
C8_Deterministic ==
    /\ Cardinality(outputs) <= 1
    /\ pc = "generated" =>
         \A i \in 1..Len(config) :
             config[i].key \notin {"+auto switch", "+proxy", "schemaVersion"} =>
                 config[i].key = "+m" \o ToString(i - 3)

\* C8 witness: a second run has installed its document over the one the
\* first run installed.
C8_Witness ==
    /\ run = 2
    /\ pc = "done" /\ Installed
    /\ destAtStart.exists /\ destAtStart.data \in outputs
    /\ Len(AcceptedLines(lines)) >= 1

\* C9: for a readable file, load_proxy_list returns, in file order, the
\* stripped form of exactly the lines that are not blank and whose first
\* non-blank character is not '#'.
C9_LoadFilters ==
    (pc = "loaded" /\ input.kind = "text") =>
        LET raw == splitlines(read_text(input.data))
            kept == {j \in 1..Len(raw) :
                        /\ Trimmed(raw[j]) # <<>>
                        /\ Trimmed(raw[j])[1] # "#"}
            nth(i) == CHOOSE j \in kept : Cardinality({m \in kept : m < j}) = i - 1
        IN  /\ Len(lines) = Cardinality(kept)
            /\ \A i \in 1..Len(lines) : lines[i] = Trimmed(raw[nth(i)])
            /\ \A i \in 1..Len(lines) :
                 /\ lines[i] # <<>>
                 /\ lines[i][1] \notin WHITESPACE \cup {"#"}
                 /\ lines[i][Len(lines[i])] \notin WHITESPACE

\* C9 witness: an indented comment was dropped and the next line returned
\* stripped.
C9_Witness ==
    /\ pc = "loaded"
    /\ input = TextFile(Chars(" #\na "))
    /\ lines = <<Chars("a")>>

\* A line ADDRESS:PORT:USER:PASS whose address is an IPv6 literal.
HasIPv6Address(line) ==
    \E i \in 1..Len(line) :
        /\ line[i] = ":"
        /\ IsIPv6(Trimmed(SubSeq(line, 1, i - 1)))
        /\ ColonCount(SubSeq(line, i + 1, Len(line))) >= 2

\* C10: an accepted line has exactly three ':', and its address has no ':'
\* and is an IPv4 literal; a line whose address is an IPv6 literal, or whose
\* password contains ':', is rejected for its field count.
C10_ThreeColons ==
    parsed # Pending =>
        /\ parsed.proxy # None =>
             /\ ColonCount(candidate) = 3
             /\ ColonCount(parsed.proxy.ip) = 0
             /\ IsIPv4(parsed.proxy.ip)
        /\ (HasIPv6Address(candidate) \/ ColonCount(candidate) >= 4) =>
             /\ parsed.proxy = None
             /\ parsed.warning = "Invalid format (expected IP:PORT:USER:PASS)"

\* C10 witness: a line whose address is the IPv6 literal ::80 was rejected.
C10_Witness ==
    /\ candidate = Chars("::80:80:u: p ")
    /\ HasIPv6Address(candidate)
    /\ parsed # Pending
    /\ parsed.proxy = None

============================================================================
